---- MODULE Spec2Model ----
(***************************************************************************)
(* Conversation branching engine of the chat routes (routes/chat.ts,       *)
(* kept as src/unnamed/part_000): the messages and chats tables, the       *)
(* chain reconstructor loadConversationChain, the branch info resolver     *)
(* getBranchInfo, and the send / edit / fetch / create-chat handlers.      *)
(* Every awaited db.query or collaborator call of a handler is one step,   *)
(* so concurrent requests interleave exactly at the await points.          *)
(***************************************************************************)
EXTENDS Integers, Sequences, FiniteSets, TLC

(* ------------------------------ bounds -------------------------------- *)
MaxMessages == 5
MaxConcMessages == 5
MaxMultiMessages == 3
MaxBranchArg == 3
MaxTitleMessages == 3
MaxRetriesArg == 4
MaxClock == 3

(* --------------------------- value universe --------------------------- *)
NULL == 0
NoBranch == -1
Users == {1, 2}
ChatIds == {1, 2}
Requests == {1, 2}

\* a request body field: str is "typeof x === 'string'", val the characters
Bodies == { [str |-> FALSE, val |-> <<>>],
            [str |-> TRUE,  val |-> <<>>],
            [str |-> TRUE,  val |-> <<1>>] }
NoBody == [str |-> FALSE, val |-> <<>>]
AiText == <<2>>
NewChatTitle == <<3>>
GeneratedTitle == <<4>>

VARIABLES messages, chats, now, nextId, req

\* the notification side of the server: the build that runs, the minute of
\* the last cron firing, the notifications, push_subscriptions and
\* notification_logs tables, the cron callbacks in flight, the calls of
\* sendPushNotification so far, and the start-up call of connectWithRetry
VARIABLES build, clock, notifications, subscriptions, logs, runs, pushed, conn

chat == <<messages, chats, now, nextId, req>>
sys == <<build, clock, notifications, subscriptions, logs, runs, pushed, conn>>
vars == <<messages, chats, now, nextId, req,
          build, clock, notifications, subscriptions, logs, runs, pushed, conn>>

(* ----------------------------- helpers -------------------------------- *)
Max(S) == CHOOSE x \in S : \A y \in S : y <= x

Ids(seq) == { seq[i].message_id : i \in 1..Len(seq) }

\* ORDER BY timestamp ASC over a result set
RECURSIVE OrderByTimestamp(_)
OrderByTimestamp(S) ==
  IF S = {} THEN <<>>
  ELSE LET first == CHOOSE m \in S : \A x \in S :
                      \/ m.timestamp < x.timestamp
                      \/ m.timestamp = x.timestamp /\ m.message_id <= x.message_id
       IN <<first>> \o OrderByTimestamp(S \ {first})

\* Array.prototype.sort with the comparator a.timestamp - b.timestamp (stable)
RECURSIVE InsertByTimestamp(_, _)
InsertByTimestamp(sorted, m) ==
  IF sorted = <<>> THEN <<m>>
  ELSE IF sorted[Len(sorted)].timestamp <= m.timestamp THEN Append(sorted, m)
  ELSE Append(InsertByTimestamp(SubSeq(sorted, 1, Len(sorted) - 1), m),
              sorted[Len(sorted)])

RECURSIVE SortByTimestamp(_)
SortByTimestamp(seq) ==
  IF seq = <<>> THEN <<>>
  ELSE InsertByTimestamp(SortByTimestamp(SubSeq(seq, 1, Len(seq) - 1)),
                         seq[Len(seq)])

(* ------------------------ loadConversationChain ----------------------- *)
\* SELECT ... FROM messages WHERE chat_id = $1 ORDER BY timestamp ASC,
\* rows mapped with branch_index: row.branch_index || 1
SelectChatMessages(msgs, chatId) ==
  LET rows == OrderByTimestamp({ m \in msgs : m.chat_id = chatId })
  IN [i \in 1..Len(rows) |->
        [rows[i] EXCEPT !.branch_index = IF @ = 0 THEN 1 ELSE @]]

\* const effectiveBranchIndex = branchIndex === null ? 1 : branchIndex
EffectiveBranchIndex(branchIndex) ==
  IF branchIndex = NoBranch THEN 1 ELSE branchIndex

\* allMessages.filter(msg => !msg.parent_message_id)
MainBranchFilterKeepAll(allMessages) == allMessages
MainBranchFilter(allMessages) ==
  LET Keep(m) == m.parent_message_id = NULL
  IN SelectSeq(allMessages, Keep)

FirstPassBranchOnly(allMessages, k) ==
  LET Direct(m) == m.parent_message_id # NULL /\ m.branch_index = k
  IN SelectSeq(allMessages, Direct)
\* first pass: messages directly in the branch
FirstPass(allMessages, k) ==
  LET Direct(m) == \/ m.parent_message_id = NULL
                   \/ m.branch_index = k
  IN SelectSeq(allMessages, Direct)

RECURSIVE SweepAnyBranch(_, _, _, _)
SweepAnyBranch(allMessages, k, i, acc) ==
  IF i > Len(allMessages) THEN acc
  ELSE LET msg == allMessages[i]
           take == /\ msg.message_id \notin Ids(acc)
                   /\ msg.reply_to # NULL
                   /\ msg.reply_to \in Ids(acc)
       IN SweepAnyBranch(allMessages, k, i + 1,
                         IF take THEN Append(acc, msg) ELSE acc)

\* one "for (const msg of allMessages)" sweep of the while loop, from index i;
\* acc is messagesInBranch (branchMessageIds is Ids(acc))
RECURSIVE Sweep(_, _, _, _)
Sweep(allMessages, k, i, acc) ==
  IF i > Len(allMessages) THEN acc
  ELSE LET msg == allMessages[i]
           take == /\ msg.message_id \notin Ids(acc)
                   /\ msg.reply_to # NULL
                   /\ msg.reply_to \in Ids(acc)
                   /\ \/ msg.parent_message_id = NULL
                      \/ msg.branch_index = k
       IN Sweep(allMessages, k, i + 1, IF take THEN Append(acc, msg) ELSE acc)

\* while (changed) { ... }
RECURSIVE FollowReplyChains(_, _, _)
FollowReplyChains(allMessages, k, acc) ==
  LET next == Sweep(allMessages, k, 1, acc)
  IN IF Len(next) = Len(acc) THEN acc
     ELSE FollowReplyChains(allMessages, k, next)

loadConversationChain(msgs, chatId, branchIndex) ==
  LET allMessages == SelectChatMessages(msgs, chatId)
      k == EffectiveBranchIndex(branchIndex)
  IN IF Len(allMessages) = 0 THEN <<>>
     ELSE IF k = 1 THEN MainBranchFilter(allMessages)
     ELSE SortByTimestamp(
            FollowReplyChains(allMessages, k, FirstPass(allMessages, k)))

(* ---------------------------- getBranchInfo --------------------------- *)
\* the LEFT JOIN group of one m1: COALESCE(m2.branch_index, 1) over the
\* joined rows; an m1 without children joins one all-NULL row
JoinedBranchValues(msgs, m1) ==
  LET children == { m2 \in msgs : m2.parent_message_id = m1.message_id }
  IN IF children = {} THEN {1}
     ELSE { IF m2.branch_index = 0 THEN 1 ELSE m2.branch_index : m2 \in children }

\* the rows of the query: user messages of the chat, grouped, HAVING count > 0
BranchInfoRows(msgs, chatId) ==
  { m1 \in msgs : /\ m1.chat_id = chatId
                  /\ m1.from = "user"
                  /\ Cardinality(JoinedBranchValues(msgs, m1)) > 0 }

CurrentBranchOfMin(vals) == CHOOSE x \in vals : \A y \in vals : x <= y
CurrentBranchOf(vals) == IF Max(vals) = 0 THEN 1 ELSE Max(vals)

getBranchInfo(msgs, chatId) ==
  LET rows == BranchInfoRows(msgs, chatId)
  IN [id \in { m.message_id : m \in rows } |->
        LET m1 == CHOOSE m \in rows : m.message_id = id
            vals == JoinedBranchValues(msgs, m1)
            branchCount == Cardinality(vals)
        IN [branchCount |-> IF branchCount = 0 THEN 1 ELSE branchCount,
            currentBranch |-> CurrentBranchOf(vals)]]

(* ------------------------------ the store ----------------------------- *)
\* INSERT INTO messages ... RETURNING message_id, timestamp
NewMessage(id, chatId, userId, from, text, replyTo, parent, branch, ts) ==
  [message_id |-> id, chat_id |-> chatId, user_id |-> userId, from |-> from,
   message |-> text, reply_to |-> replyTo, parent_message_id |-> parent,
   branch_index |-> branch, timestamp |-> ts]

\* reply_to UUID REFERENCES messages(message_id)
ReplyToForeignKeyOk(msgs, replyTo) ==
  replyTo = NULL \/ \E m \in msgs : m.message_id = replyTo

\* UPDATE chats SET updated_at = CURRENT_TIMESTAMP WHERE chat_id = $1
BumpUpdatedAt(cs, chatId, ts) ==
  { IF c.chat_id = chatId THEN [c EXCEPT !.updated_at = ts] ELSE c : c \in cs }

\* UPDATE chats SET title = $1 WHERE chat_id = $2
SetTitle(cs, chatId, title) ==
  { IF c.chat_id = chatId THEN [c EXCEPT !.title = title] ELSE c : c \in cs }

\* SELECT ... FROM chats WHERE chat_id = $1 AND user_id = $2
OwnedChat(cs, chatId, userId) ==
  { c \in cs : c.chat_id = chatId /\ c.user_id = userId }

\* !message || typeof message !== 'string'
BodyInvalid(body) == ~body.str \/ body.val = <<>>

\* message.substring(0, 50)
TitleFallbackLen == 50
TitleFallback(text) ==
  SubSeq(text, 1, IF Len(text) < TitleFallbackLen THEN Len(text) ELSE TitleFallbackLen)

\* a message text one character longer than the fallback title
LongBody == [str |-> TRUE, val |-> [i \in 1..(TitleFallbackLen + 1) |-> 1]]

\* existingTitle.trim(): the character 32 is the space
Space == 32
BlankTitle == <<Space>>
RECURSIVE Trim(_)
Trim(text) ==
  IF text = <<>> THEN <<>>
  ELSE IF Head(text) = Space THEN Trim(Tail(text))
  ELSE IF text[Len(text)] = Space THEN Trim(SubSeq(text, 1, Len(text) - 1))
  ELSE text

\* existingTitle === 'New Chat' || !existingTitle || existingTitle.trim() === ''
TitleNeedsUpdate(existingTitle) ==
  existingTitle = NewChatTitle \/ existingTitle = <<>> \/ Trim(existingTitle) = <<>>

(* ----------------------------- requests ------------------------------- *)
Idle ==
  [pc |-> "idle", op |-> "none", user |-> 0, chat |-> 0, body |-> NoBody,
   target |-> 0, replyTo |-> 0, branchIndex |-> NoBranch,
   nextBranchIndex |-> 0, originalReplyTo |-> 0, newId |-> 0,
   chatTitle |-> <<>>, history |-> <<>>, branchInfo |-> <<>>,
   chatFound |-> FALSE, status |-> 0, writes |-> 0, dbError |-> FALSE]

\* rows a request in flight will still insert into messages
Pending(r) ==
  IF req[r].pc \in {"s_chatQuery", "s_titleNew", "s_createChat", "s_countQuery",
                    "s_titleExisting", "s_updateTitle", "s_insertUser",
                    "e_chatCheck", "e_messageCheck", "e_branchQuery",
                    "e_origQuery", "e_insertUser"} THEN 2
  ELSE IF req[r].pc \in {"s_loadChain", "s_generate", "s_insertAssistant",
                         "e_loadChain", "e_generate", "e_insertAssistant"} THEN 1
  ELSE 0

RECURSIVE SumPending(_)
SumPending(R) ==
  IF R = {} THEN 0
  ELSE LET r == CHOOSE x \in R : TRUE IN Pending(r) + SumPending(R \ {r})

\* a send or an edit is admitted only while the store has room for its two rows
RoomForRequest(cap) == Cardinality(messages) + SumPending(Requests) + 2 <= cap

Finish(r, code) ==
  req' = [req EXCEPT ![r].pc = "done", ![r].status = code]

\* an awaited db.query rejects: the handler's catch block answers 500
StorageFails(r) ==
  req' = [req EXCEPT ![r].pc = "done", ![r].status = 500, ![r].dbError = TRUE]

\* the chat tables are empty and no request is in flight
ChatInit ==
  /\ messages = {}
  /\ chats = {}
  /\ now = 0
  /\ nextId = 1
  /\ req = [r \in Requests |-> Idle]

\* the chat routes alone: no notification, no subscription, no cron run
Init ==
  /\ ChatInit
  /\ build = "ts"
  /\ clock = 0
  /\ notifications = <<>>
  /\ subscriptions = {}
  /\ logs = <<>>
  /\ runs = <<>>
  /\ pushed = <<>>
  /\ conn = <<>>

\* the response has been written; the handler's locals are gone
Respond(r) ==
  /\ req[r].pc = "done"
  /\ UNCHANGED sys
  /\ req' = [req EXCEPT ![r] = Idle]
  /\ UNCHANGED <<messages, chats, now, nextId>>

(* --------------------------- POST /chats ------------------------------ *)
CustomTitle == <<5>>

CreateChat(r, u, c, title) ==
  /\ req[r].pc = "idle"
  /\ UNCHANGED sys
  /\ IF \E x \in chats : x.chat_id = c
     THEN /\ req' = [req EXCEPT ![r] =
               [Idle EXCEPT !.op = "create", !.user = u, !.chat = c,
                            !.pc = "done", !.status = 500]]   \* primary key violation
          /\ UNCHANGED chats
     ELSE /\ chats' = chats \cup
               { [chat_id |-> c, user_id |-> u,
                  title |-> IF title = <<>> THEN NewChatTitle ELSE title,
                  updated_at |-> now] }
          /\ req' = [req EXCEPT ![r] =
               [Idle EXCEPT !.op = "create", !.user = u, !.chat = c,
                            !.pc = "done", !.status = 200, !.writes = 1]]
  /\ UNCHANGED <<messages, now, nextId>>

(* -------------------- POST /chats/:chatId/messages -------------------- *)
StartSend(r, u, c, body, replyTo, cap) ==
  /\ req[r].pc = "idle"
  /\ UNCHANGED sys
  /\ RoomForRequest(cap)
  /\ req' = [req EXCEPT ![r] =
       IF BodyInvalid(body)
       THEN [Idle EXCEPT !.op = "send", !.user = u, !.chat = c, !.body = body,
                         !.replyTo = replyTo, !.pc = "done", !.status = 400]
       ELSE [Idle EXCEPT !.op = "send", !.user = u, !.chat = c, !.body = body,
                         !.replyTo = replyTo, !.pc = "s_chatQuery"]]
  /\ UNCHANGED <<messages, chats, now, nextId>>

SendChatQuery(r) ==
  /\ req[r].pc = "s_chatQuery"
  /\ UNCHANGED sys
  /\ req' = [req EXCEPT ![r].pc =
       IF OwnedChat(chats, req[r].chat, req[r].user) = {}
       THEN "s_titleNew" ELSE "s_countQuery",
       ![r].chatFound = OwnedChat(chats, req[r].chat, req[r].user) # {},
       ![r].chatTitle =
       IF OwnedChat(chats, req[r].chat, req[r].user) = {}
       THEN NewChatTitle
       ELSE (CHOOSE c \in OwnedChat(chats, req[r].chat, req[r].user) : TRUE).title]
  /\ UNCHANGED <<messages, chats, now, nextId>>

SendTitleNewAborts(r) ==
  /\ req[r].pc = "s_titleNew"
  /\ UNCHANGED sys
  /\ \/ req' = [req EXCEPT ![r].pc = "s_createChat",
                           ![r].chatTitle = GeneratedTitle]
     \/ Finish(r, 500)
  /\ UNCHANGED <<messages, chats, now, nextId>>
\* generateChatTitle(message), or the catch block's message.substring(0, 50)
SendTitleNew(r) ==
  /\ req[r].pc = "s_titleNew"
  /\ UNCHANGED sys
  /\ \E ok \in BOOLEAN :
       req' = [req EXCEPT ![r].pc = "s_createChat",
                          ![r].chatTitle = IF ok THEN GeneratedTitle
                                           ELSE TitleFallback(req[r].body.val)]
  /\ UNCHANGED <<messages, chats, now, nextId>>

SendCreateChat(r) ==
  /\ req[r].pc = "s_createChat"
  /\ UNCHANGED sys
  /\ IF \E x \in chats : x.chat_id = req[r].chat
     THEN /\ Finish(r, 500)                   \* primary key violation
          /\ UNCHANGED <<chats, now>>
     ELSE /\ chats' = chats \cup
               { [chat_id |-> req[r].chat, user_id |-> req[r].user,
                  title |-> req[r].chatTitle, updated_at |-> now] }
          /\ req' = [req EXCEPT ![r].pc = "s_insertUser", ![r].writes = @ + 1]
          /\ UNCHANGED now
  /\ UNCHANGED <<messages, nextId>>

SendCountQueryAnyTitle(r) ==
  /\ req[r].pc = "s_countQuery"
  /\ UNCHANGED sys
  /\ LET userMessageCount ==
           Cardinality({ m \in messages : m.chat_id = req[r].chat /\ m.from = "user" })
     IN req' = [req EXCEPT ![r].pc =
          IF userMessageCount = 0 THEN "s_titleExisting" ELSE "s_insertUser",
          ![r].chatTitle = NewChatTitle]
  /\ UNCHANGED <<messages, chats, now, nextId>>
\* SELECT COUNT(*) FROM messages WHERE chat_id = $1 AND "from" = 'user'
SendCountQuery(r) ==
  /\ req[r].pc = "s_countQuery"
  /\ UNCHANGED sys
  /\ LET userMessageCount ==
           Cardinality({ m \in messages : m.chat_id = req[r].chat /\ m.from = "user" })
         existingTitle == req[r].chatTitle
     IN req' = [req EXCEPT ![r].pc =
          IF userMessageCount = 0 /\ TitleNeedsUpdate(existingTitle)
          THEN "s_titleExisting" ELSE "s_insertUser",
          ![r].chatTitle = NewChatTitle]
  /\ UNCHANGED <<messages, chats, now, nextId>>

SendTitleExisting(r) ==
  /\ req[r].pc = "s_titleExisting"
  /\ UNCHANGED sys
  /\ \E ok \in BOOLEAN :
       req' = [req EXCEPT ![r].pc = "s_updateTitle",
                          ![r].chatTitle = IF ok THEN GeneratedTitle
                                           ELSE TitleFallback(req[r].body.val)]
  /\ UNCHANGED <<messages, chats, now, nextId>>

SendUpdateTitle(r) ==
  /\ req[r].pc = "s_updateTitle"
  /\ UNCHANGED sys
  /\ chats' = SetTitle(chats, req[r].chat, req[r].chatTitle)
  /\ req' = [req EXCEPT ![r].pc = "s_insertUser", ![r].writes = @ + 1]
  /\ UNCHANGED <<messages, now, nextId>>

SendInsertUser(r) ==
  /\ req[r].pc = "s_insertUser"
  /\ UNCHANGED sys
  /\ \/ IF ReplyToForeignKeyOk(messages, req[r].replyTo)
        THEN /\ now' = now + 1
             /\ nextId' = nextId + 1
             /\ messages' = messages \cup
                  { NewMessage(nextId, req[r].chat, req[r].user, "user",
                               req[r].body.val, req[r].replyTo, NULL, 1, now') }
             /\ req' = [req EXCEPT ![r].pc = "s_loadChain", ![r].newId = nextId,
                                   ![r].writes = @ + 1]
        ELSE /\ Finish(r, 500)                   \* foreign key violation
             /\ UNCHANGED <<messages, now, nextId>>
     \/ /\ StorageFails(r)
        /\ UNCHANGED <<messages, now, nextId>>
  /\ UNCHANGED chats

\* loadConversationChain(chatId, userId) minus the message just saved
SendLoadChain(r) ==
  /\ req[r].pc = "s_loadChain"
  /\ UNCHANGED sys
  /\ LET conversationHistory == loadConversationChain(messages, req[r].chat, NoBranch)
         Previous(m) == m.message_id # req[r].newId
         previousMessages == SelectSeq(conversationHistory, Previous)
     IN \/ req' = [req EXCEPT ![r].pc = "s_generate",
                              ![r].history = [i \in 1..Len(previousMessages) |->
                                                previousMessages[i].message_id]]
        \/ StorageFails(r)                     \* catch, console.error, throw error
  /\ UNCHANGED <<messages, chats, now, nextId>>

\* chatWithGemini(message, chatHistory): a reply, or it throws
SendGenerate(r) ==
  /\ req[r].pc = "s_generate"
  /\ UNCHANGED sys
  /\ \/ req' = [req EXCEPT ![r].pc = "s_insertAssistant"]
     \/ Finish(r, 500)
  /\ UNCHANGED <<messages, chats, now, nextId>>

SendInsertAssistantReplyToCaller(r) ==
  /\ req[r].pc = "s_insertAssistant"
  /\ UNCHANGED sys
  /\ \/ /\ now' = now + 1
        /\ nextId' = nextId + 1
        /\ messages' = messages \cup
             { NewMessage(nextId, req[r].chat, req[r].user, "assistant", AiText,
                          req[r].replyTo, NULL, 1, now') }
        /\ req' = [req EXCEPT ![r].pc = "s_bump", ![r].writes = @ + 1]
     \/ /\ StorageFails(r)
        /\ UNCHANGED <<messages, now, nextId>>
  /\ UNCHANGED chats
SendInsertAssistant(r) ==
  /\ req[r].pc = "s_insertAssistant"
  /\ UNCHANGED sys
  /\ \/ /\ now' = now + 1
        /\ nextId' = nextId + 1
        /\ messages' = messages \cup
             { NewMessage(nextId, req[r].chat, req[r].user, "assistant", AiText,
                          req[r].newId, NULL, 1, now') }
        /\ req' = [req EXCEPT ![r].pc = "s_bump", ![r].writes = @ + 1]
     \/ /\ StorageFails(r)
        /\ UNCHANGED <<messages, now, nextId>>
  /\ UNCHANGED chats

SendBump(r) ==
  /\ req[r].pc = "s_bump"
  /\ UNCHANGED sys
  /\ chats' = BumpUpdatedAt(chats, req[r].chat, now)
  /\ req' = [req EXCEPT ![r].pc = "done", ![r].status = 200, ![r].writes = @ + 1]
  /\ UNCHANGED <<messages, now, nextId>>

(* ------------ POST /chats/:chatId/messages/:messageId/edit ------------ *)
StartEdit(r, u, c, mid, body, cap) ==
  /\ req[r].pc = "idle"
  /\ UNCHANGED sys
  /\ RoomForRequest(cap)
  /\ req' = [req EXCEPT ![r] =
       IF BodyInvalid(body)
       THEN [Idle EXCEPT !.op = "edit", !.user = u, !.chat = c, !.target = mid,
                         !.body = body, !.pc = "done", !.status = 400]
       ELSE [Idle EXCEPT !.op = "edit", !.user = u, !.chat = c, !.target = mid,
                         !.body = body, !.pc = "e_chatCheck"]]
  /\ UNCHANGED <<messages, chats, now, nextId>>

EditChatCheck(r) ==
  /\ req[r].pc = "e_chatCheck"
  /\ UNCHANGED sys
  /\ IF OwnedChat(chats, req[r].chat, req[r].user) = {}
     THEN Finish(r, 404)
     ELSE req' = [req EXCEPT ![r].pc = "e_messageCheck"]
  /\ UNCHANGED <<messages, chats, now, nextId>>

\* SELECT message_id, "from" FROM messages
\*  WHERE message_id = $1 AND chat_id = $2 AND user_id = $3
MessageCheckRowsAnyChat(msgs, mid, chatId, userId) ==
  { m \in msgs : m.message_id = mid }
MessageCheckRows(msgs, mid, chatId, userId) ==
  { m \in msgs : m.message_id = mid /\ m.chat_id = chatId /\ m.user_id = userId }

EditMessageCheck(r) ==
  /\ req[r].pc = "e_messageCheck"
  /\ UNCHANGED sys
  /\ LET rows == MessageCheckRows(messages, req[r].target, req[r].chat, req[r].user)
     IN IF rows = {} THEN Finish(r, 404)
        ELSE IF (CHOOSE m \in rows : TRUE).from # "user" THEN Finish(r, 400)
        ELSE req' = [req EXCEPT ![r].pc = "e_branchQuery"]
  /\ UNCHANGED <<messages, chats, now, nextId>>

\* SELECT COALESCE(MAX(branch_index), 0) + 1 FROM messages
\*  WHERE parent_message_id = $1 OR message_id = $1
NextBranchIndexOwnOnly(msgs, mid) ==
  LET rooted == { m.branch_index : m \in { x \in msgs : x.message_id = mid } }
  IN (IF rooted = {} THEN 0 ELSE Max(rooted)) + 1
NextBranchIndex(msgs, mid) ==
  LET rooted == { m.branch_index : m \in
                    { x \in msgs : x.parent_message_id = mid \/ x.message_id = mid } }
  IN (IF rooted = {} THEN 0 ELSE Max(rooted)) + 1

EditBranchQuery(r) ==
  /\ req[r].pc = "e_branchQuery"
  /\ UNCHANGED sys
  /\ req' = [req EXCEPT ![r].pc = "e_origQuery",
                        ![r].nextBranchIndex = NextBranchIndex(messages, req[r].target)]
  /\ UNCHANGED <<messages, chats, now, nextId>>

\* SELECT reply_to FROM messages WHERE message_id = $1
EditOrigQuery(r) ==
  /\ req[r].pc = "e_origQuery"
  /\ UNCHANGED sys
  /\ LET rows == { m \in messages : m.message_id = req[r].target }
     IN req' = [req EXCEPT ![r].pc = "e_insertUser",
                           ![r].originalReplyTo =
                             IF rows = {} THEN NULL
                             ELSE (CHOOSE m \in rows : TRUE).reply_to]
  /\ UNCHANGED <<messages, chats, now, nextId>>

EditInsertUserInPlace(r) ==
  /\ req[r].pc = "e_insertUser"
  /\ UNCHANGED sys
  /\ \/ /\ now' = now + 1
        /\ nextId' = nextId + 1
        /\ messages' =
             { IF m.message_id = req[r].target
               THEN [m EXCEPT !.message = req[r].body.val,
                              !.branch_index = req[r].nextBranchIndex]
               ELSE m : m \in messages }
        /\ req' = [req EXCEPT ![r].pc = "e_loadChain", ![r].newId = req[r].target,
                              ![r].writes = @ + 1]
     \/ /\ StorageFails(r)
        /\ UNCHANGED <<messages, now, nextId>>
  /\ UNCHANGED chats
EditInsertUser(r) ==
  /\ req[r].pc = "e_insertUser"
  /\ UNCHANGED sys
  /\ \/ /\ now' = now + 1
        /\ nextId' = nextId + 1
        /\ messages' = messages \cup
             { NewMessage(nextId, req[r].chat, req[r].user, "user", req[r].body.val,
                          req[r].originalReplyTo, req[r].target,
                          req[r].nextBranchIndex, now') }
        /\ req' = [req EXCEPT ![r].pc = "e_loadChain", ![r].newId = nextId,
                              ![r].writes = @ + 1]
     \/ /\ StorageFails(r)
        /\ UNCHANGED <<messages, now, nextId>>
  /\ UNCHANGED chats

\* loadConversationChain(chatId, userId, nextBranchIndex) minus the edited message
EditLoadChain(r) ==
  /\ req[r].pc = "e_loadChain"
  /\ UNCHANGED sys
  /\ LET conversationHistory ==
           loadConversationChain(messages, req[r].chat, req[r].nextBranchIndex)
         Before(m) == m.message_id # req[r].newId
         messagesBeforeEdit == SelectSeq(conversationHistory, Before)
     IN \/ req' = [req EXCEPT ![r].pc = "e_generate",
                              ![r].history = [i \in 1..Len(messagesBeforeEdit) |->
                                                messagesBeforeEdit[i].message_id]]
        \/ StorageFails(r)                     \* catch, console.error, throw error
  /\ UNCHANGED <<messages, chats, now, nextId>>

EditGenerateRollback(r) ==
  /\ req[r].pc = "e_generate"
  /\ UNCHANGED sys
  /\ \/ /\ req' = [req EXCEPT ![r].pc = "e_insertAssistant"]
        /\ UNCHANGED messages
     \/ /\ Finish(r, 500)
        /\ messages' = { m \in messages : m.message_id # req[r].newId }
  /\ UNCHANGED <<chats, now, nextId>>
EditGenerate(r) ==
  /\ req[r].pc = "e_generate"
  /\ UNCHANGED sys
  /\ \/ req' = [req EXCEPT ![r].pc = "e_insertAssistant"]
     \/ Finish(r, 500)
  /\ UNCHANGED <<messages, chats, now, nextId>>

EditInsertAssistantNoParent(r) ==
  /\ req[r].pc = "e_insertAssistant"
  /\ UNCHANGED sys
  /\ \/ /\ now' = now + 1
        /\ nextId' = nextId + 1
        /\ messages' = messages \cup
             { NewMessage(nextId, req[r].chat, req[r].user, "assistant", AiText,
                          req[r].newId, NULL, req[r].nextBranchIndex, now') }
        /\ req' = [req EXCEPT ![r].pc = "e_bump", ![r].writes = @ + 1]
     \/ /\ StorageFails(r)
        /\ UNCHANGED <<messages, now, nextId>>
  /\ UNCHANGED chats
EditInsertAssistantMainBranch(r) ==
  /\ req[r].pc = "e_insertAssistant"
  /\ UNCHANGED sys
  /\ \/ /\ now' = now + 1
        /\ nextId' = nextId + 1
        /\ messages' = messages \cup
             { NewMessage(nextId, req[r].chat, req[r].user, "assistant", AiText,
                          req[r].newId, req[r].target, 1, now') }
        /\ req' = [req EXCEPT ![r].pc = "e_bump", ![r].writes = @ + 1]
     \/ /\ StorageFails(r)
        /\ UNCHANGED <<messages, now, nextId>>
  /\ UNCHANGED chats
EditInsertAssistant(r) ==
  /\ req[r].pc = "e_insertAssistant"
  /\ UNCHANGED sys
  /\ \/ /\ now' = now + 1
        /\ nextId' = nextId + 1
        /\ messages' = messages \cup
             { NewMessage(nextId, req[r].chat, req[r].user, "assistant", AiText,
                          req[r].newId, req[r].target, req[r].nextBranchIndex, now') }
        /\ req' = [req EXCEPT ![r].pc = "e_bump", ![r].writes = @ + 1]
     \/ /\ StorageFails(r)
        /\ UNCHANGED <<messages, now, nextId>>
  /\ UNCHANGED chats

EditBump(r) ==
  /\ req[r].pc = "e_bump"
  /\ UNCHANGED sys
  /\ chats' = BumpUpdatedAt(chats, req[r].chat, now)
  /\ req' = [req EXCEPT ![r].pc = "done", ![r].status = 200, ![r].writes = @ + 1]
  /\ UNCHANGED <<messages, now, nextId>>

(* ------------------------- GET /chats/:chatId ------------------------- *)
\* the ?branchIndex= query parameter: absent, or a string of decimal digits
NoQuery == [present |-> FALSE, digits |-> <<>>]
DigitQuery(d) == [present |-> TRUE, digits |-> <<d>>]

\* parseInt(s, 10) of a string of decimal digits
RECURSIVE ParseInt(_)
ParseInt(digits) ==
  IF digits = <<>> THEN 0
  ELSE 10 * ParseInt(SubSeq(digits, 1, Len(digits) - 1)) + digits[Len(digits)]

\* req.query.branchIndex ? parseInt(req.query.branchIndex, 10) : null
\* (an absent parameter and the empty string are falsy)
ParseBranchIndex(q) ==
  IF ~q.present \/ q.digits = <<>> THEN NoBranch ELSE ParseInt(q.digits)

StartFetch(r, u, c, q) ==
  /\ req[r].pc = "idle"
  /\ UNCHANGED sys
  /\ req' = [req EXCEPT ![r] =
       [Idle EXCEPT !.op = "fetch", !.user = u, !.chat = c,
                    !.branchIndex = ParseBranchIndex(q), !.pc = "f_chatCheck"]]
  /\ UNCHANGED <<messages, chats, now, nextId>>

FetchChatCheck(r) ==
  /\ req[r].pc = "f_chatCheck"
  /\ UNCHANGED sys
  /\ IF OwnedChat(chats, req[r].chat, req[r].user) = {}
     THEN Finish(r, 404)
     ELSE req' = [req EXCEPT ![r].pc = "f_loadChain"]
  /\ UNCHANGED <<messages, chats, now, nextId>>

FetchLoadChain(r) ==
  /\ req[r].pc = "f_loadChain"
  /\ UNCHANGED sys
  /\ LET msgs == loadConversationChain(messages, req[r].chat, req[r].branchIndex)
     IN \/ req' = [req EXCEPT ![r].pc = "f_branchInfo",
                              ![r].history = [i \in 1..Len(msgs) |-> msgs[i].message_id]]
        \/ StorageFails(r)                     \* catch, console.error, throw error
  /\ UNCHANGED <<messages, chats, now, nextId>>

\* getBranchInfo's own catch block: console.error, return {}
FetchBranchInfo(r) ==
  /\ req[r].pc = "f_branchInfo"
  /\ UNCHANGED sys
  /\ \/ req' = [req EXCEPT ![r].pc = "done", ![r].status = 200,
                           ![r].branchInfo = getBranchInfo(messages, req[r].chat)]
     \/ req' = [req EXCEPT ![r].pc = "done", ![r].status = 200,
                           ![r].branchInfo = <<>>, ![r].dbError = TRUE]
  /\ UNCHANGED <<messages, chats, now, nextId>>

(* --------------------------- specifications --------------------------- *)
\* replyTo of a send: absent, the id of the first or second message ever
\* stored (a foreign key violation while that message does not exist yet)
ReplyToArgs == {NULL, 1, 2}
\* ?branchIndex= of a fetch: absent, empty, or a digit
BranchArgs == {NoQuery, [present |-> TRUE, digits |-> <<>>]}
                \cup { DigitQuery(d) : d \in 0..MaxBranchArg }

\* title of a create-chat request: absent or a text
TitleArgs == {<<>>, CustomTitle}

\* the steps of the handlers for request slots R, callers U, chat ids C,
\* replyTo arguments RT, branchIndex query arguments Q, message bodies B and
\* title arguments T, with at most cap rows in messages
Step(R, U, C, cap, RT, Q, B, T) ==
  \/ \E r \in R, u \in U, c \in C, t \in T : CreateChat(r, u, c, t)
  \/ \E r \in R, u \in U, c \in C, b \in B, rt \in RT :
       StartSend(r, u, c, b, rt, cap)
  \/ \E r \in R : SendChatQuery(r)
  \/ \E r \in R : SendTitleNew(r)
  \/ \E r \in R : SendCreateChat(r)
  \/ \E r \in R : SendCountQuery(r)
  \/ \E r \in R : SendTitleExisting(r)
  \/ \E r \in R : SendUpdateTitle(r)
  \/ \E r \in R : SendInsertUser(r)
  \/ \E r \in R : SendLoadChain(r)
  \/ \E r \in R : SendGenerate(r)
  \/ \E r \in R : SendInsertAssistant(r)
  \/ \E r \in R : SendBump(r)
  \/ \E r \in R, u \in U, c \in C, mid \in 1..nextId, b \in B :
       StartEdit(r, u, c, mid, b, cap)
  \/ \E r \in R : EditChatCheck(r)
  \/ \E r \in R : EditMessageCheck(r)
  \/ \E r \in R : EditBranchQuery(r)
  \/ \E r \in R : EditOrigQuery(r)
  \/ \E r \in R : EditInsertUser(r)
  \/ \E r \in R : EditLoadChain(r)
  \/ \E r \in R : EditGenerate(r)
  \/ \E r \in R : EditInsertAssistant(r)
  \/ \E r \in R : EditBump(r)
  \/ \E r \in R, u \in U, c \in C, q \in Q :
       StartFetch(r, u, c, q)
  \/ \E r \in R : FetchChatCheck(r)
  \/ \E r \in R : FetchLoadChain(r)
  \/ \E r \in R : FetchBranchInfo(r)
  \/ \E r \in R : Respond(r)

\* one caller, one chat, requests served one after another (a single slot)
NextSeq == Step({1}, {1}, {1}, MaxMessages, ReplyToArgs, BranchArgs, Bodies, TitleArgs)
SpecSeq == Init /\ [][NextSeq]_vars

\* one caller, one chat, two requests in flight interleaving at their awaits
NextConc == Step(Requests, {1}, {1}, MaxConcMessages, {NULL}, {NoQuery, DigitQuery(2)},
                 Bodies, TitleArgs)
SpecConc == Init /\ [][NextConc]_vars

\* two callers and two chats, requests served one after another
NextMulti == Step({1}, Users, ChatIds, MaxMultiMessages, ReplyToArgs, BranchArgs,
                  Bodies, TitleArgs)
SpecMulti == Init /\ [][NextMulti]_vars

\* two callers and two chats, requests served one after another, with short
\* and long message texts and with blank chat titles
NextTitle == Step({1}, Users, ChatIds, MaxTitleMessages, {NULL}, {NoQuery},
                  Bodies \cup {LongBody}, TitleArgs \cup {BlankTitle})
SpecTitle == Init /\ [][NextTitle]_vars

(* -------------------------- connectWithRetry -------------------------- *)
\* connectWithRetry(maxRetries = 10, delay = 2000)
DefaultMaxRetries == 10
DefaultDelay == 2000
ShortDelay == 500
RetryArgs == 0..MaxRetriesArg \cup {DefaultMaxRetries}
DelayArgs == {ShortDelay, DefaultDelay}
Builds == {"js", "ts"}

ConnIdle ==
  [pc |-> "idle", maxRetries |-> 0, delay |-> 0, i |-> 0, attempts |-> 0,
   waits |-> <<>>, result |-> "none"]

\* the tables and the cron side stay as they are during start-up
NoCron ==
  /\ clock = 0 /\ notifications = <<>> /\ subscriptions = {}
  /\ logs = <<>> /\ runs = <<>> /\ pushed = <<>>

InitConnect ==
  /\ ChatInit
  /\ NoCron
  /\ build \in Builds
  /\ conn = ConnIdle

\* the call, and the first test of "i < maxRetries"; with maxRetries = 0 the
\* loop body never runs: connection.js falls off the end (undefined), the
\* TypeScript source returns false
ConnStart(maxRetries, delay) ==
  /\ conn.pc = "idle"
  /\ conn' = IF 0 < maxRetries
             THEN [ConnIdle EXCEPT !.pc = "query", !.maxRetries = maxRetries,
                                   !.delay = delay]
             ELSE [ConnIdle EXCEPT !.pc = "returned", !.maxRetries = maxRetries,
                                   !.delay = delay,
                                   !.result = IF build = "ts" THEN "false"
                                              ELSE "undefined"]
  /\ UNCHANGED <<chat, build, clock, notifications, subscriptions, logs, runs, pushed>>

\* await db.query('SELECT NOW(), ...'): it resolves (return true) or rejects
ConnQuery ==
  /\ conn.pc = "query"
  /\ \/ conn' = [conn EXCEPT !.pc = "returned", !.attempts = @ + 1,
                              !.result = "true"]
     \/ conn' = [conn EXCEPT !.attempts = @ + 1,
                              !.pc = IF conn.i < conn.maxRetries - 1
                                     THEN "wait" ELSE "thrown",
                              !.result = IF conn.i < conn.maxRetries - 1
                                         THEN "none" ELSE "error"]
  /\ UNCHANGED <<chat, build, clock, notifications, subscriptions, logs, runs, pushed>>

\* await new Promise(resolve => setTimeout(resolve, delay)); i++
ConnWait ==
  /\ conn.pc = "wait"
  /\ conn' = [conn EXCEPT !.waits = Append(@, conn.delay), !.i = @ + 1,
                          !.pc = "query"]
  /\ UNCHANGED <<chat, build, clock, notifications, subscriptions, logs, runs, pushed>>

NextConnect ==
  \/ \E maxRetries \in RetryArgs, delay \in DelayArgs : ConnStart(maxRetries, delay)
  \/ ConnQuery
  \/ ConnWait
SpecConnect == InitConnect /\ [][NextConnect]_vars

(* ------------------- scheduler and sendPushNotification ---------------- *)
\* times are in minutes: the cron expression '* * * * *' fires once a minute
OneMinute == 1
WindowBack == 5
Day == 1440
\* statusCode of a rejected webpush.sendNotification; Delivered stands for a
\* resolved one
Delivered == 0
StatusGone == 410
StatusNotFound == 404
StatusOther == 500
Outcomes == {Delivered, StatusGone, StatusNotFound, StatusOther}

NotificationIds == {1, 2}
Endpoints == {1, 2}
RunSlots == {1, 2}
CronUser == 1
SchedTimes == {0 - WindowBack, 0} \cup 1..MaxClock

NotificationRows ==
  [user_id : {CronUser}, scheduled_time : SchedTimes,
   repeat_daily : BOOLEAN, is_active : BOOLEAN]

IdleRun ==
  [pc |-> "idle", now |-> 0, rows |-> <<>>, i |-> 0, subs |-> <<>>, j |-> 0,
   sent |-> 0, failed |-> 0, logId |-> 0, outcomes |-> <<>>, err |-> FALSE,
   passed |-> {}]

\* the tables as the routes left them when the cron job is installed: N are
\* the ids of the notifications rows, E the endpoints the user subscribed
CronTables(N, E) ==
  /\ ChatInit
  /\ build \in Builds
  /\ conn = <<>>
  /\ clock = 0
  /\ notifications \in [N -> NotificationRows]
  /\ subscriptions \in SUBSET E
  /\ logs = <<>>
  /\ runs = [s \in RunSlots |-> IdleRun]
  /\ pushed = [n \in N |-> 0]
InitCron == CronTables(NotificationIds, Endpoints)
InitCronConc == CronTables({1}, Endpoints)

\* the orders in which a query may return the rows of S
Orders(S) ==
  { q \in [1..Cardinality(S) -> S] : \A a, b \in 1..Cardinality(S) : a # b => q[a] # q[b] }

\* scheduler.js looks five minutes back, the TypeScript source does not
WindowStart(b, t) == IF b = "js" THEN t - WindowBack * OneMinute ELSE t
WindowEnd(t) == t + OneMinute
Due(b, t) ==
  { n \in DOMAIN notifications :
      /\ notifications[n].is_active
      /\ notifications[n].scheduled_time >= WindowStart(b, t)
      /\ notifications[n].scheduled_time <= WindowEnd(t) }
\* scheduler.js orders by scheduled_time, the TypeScript query has no ORDER BY
DueOrders(b, t) ==
  { q \in Orders(Due(b, t)) :
      b = "js" => \A a, c \in 1..Len(q) :
                    a < c => notifications[q[a]].scheduled_time
                               <= notifications[q[c]].scheduled_time }
RowOf(n) ==
  [id |-> n, user_id |-> notifications[n].user_id,
   scheduled_time |-> notifications[n].scheduled_time,
   repeat_daily |-> notifications[n].repeat_daily]

Ended == {"idle", "finished", "aborted"}
CronFrame == UNCHANGED <<chat, build, conn>>
\* a rejected query: sendPushNotification rethrows, the cron callback's catch
\* logs the error and the run is over
Aborted(s) == runs' = [runs EXCEPT ![s].pc = "aborted", ![s].err = TRUE]

\* the cron callback starts: now = new Date()
CronFire(s) ==
  /\ runs[s].pc \in Ended
  /\ clock < MaxClock
  /\ clock' = clock + 1
  /\ runs' = [runs EXCEPT ![s] = [IdleRun EXCEPT !.pc = "query", !.now = clock + 1]]
  /\ CronFrame
  /\ UNCHANGED <<notifications, subscriptions, logs, pushed>>

\* SELECT * FROM notifications WHERE is_active = true AND scheduled_time in
\* the window; scheduler.js then logs oneMinuteAgo, a name it never declares:
\* the ReferenceError goes to the catch and the loop is not reached
CronQuery(s) ==
  /\ runs[s].pc = "query"
  /\ \/ \E q \in DueOrders(build, runs[s].now) :
          runs' = [runs EXCEPT ![s].rows = [k \in 1..Len(q) |-> RowOf(q[k])],
                               ![s].i = 1,
                               ![s].pc = IF build = "js" THEN "aborted" ELSE "loop"]
     \/ Aborted(s)
  /\ CronFrame
  /\ UNCHANGED <<clock, notifications, subscriptions, logs, pushed>>

\* for (const notification of notifications.rows): the call of
\* sendPushNotification(notification.user_id, notification)
CronLoop(s) ==
  /\ runs[s].pc = "loop"
  /\ IF runs[s].i <= Len(runs[s].rows)
     THEN /\ pushed' = [pushed EXCEPT ![runs[s].rows[runs[s].i].id] = @ + 1]
          /\ runs' = [runs EXCEPT ![s].pc = "subs", ![s].subs = <<>>, ![s].j = 0,
                                  ![s].passed = @ \cup {runs[s].rows[runs[s].i].id},
                                  ![s].sent = 0, ![s].failed = 0, ![s].logId = 0,
                                  ![s].outcomes = <<>>]
     ELSE /\ runs' = [runs EXCEPT ![s].pc = "finished"]
          /\ UNCHANGED pushed
  /\ CronFrame
  /\ UNCHANGED <<clock, notifications, subscriptions, logs>>

\* SELECT endpoint, p256dh, auth FROM push_subscriptions WHERE user_id = $1
PushSubscriptions(s) ==
  /\ runs[s].pc = "subs"
  /\ \/ \E q \in Orders(subscriptions) :
          runs' = [runs EXCEPT ![s].subs = q, ![s].j = 1,
                               ![s].pc = IF Len(q) = 0 THEN "nosubs" ELSE "pending"]
     \/ Aborted(s)
  /\ CronFrame
  /\ UNCHANGED <<clock, notifications, subscriptions, logs, pushed>>

\* no subscription: INSERT a 'failed' log row (its rejection is swallowed by
\* .catch) and return {sent: 0, failed: 0}
PushNoSubscription(s) ==
  /\ runs[s].pc = "nosubs"
  /\ \/ logs' = Append(logs, [notification_id |-> runs[s].rows[runs[s].i].id,
                              status |-> "failed"])
     \/ UNCHANGED logs
  /\ runs' = [runs EXCEPT ![s].pc = "update"]
  /\ CronFrame
  /\ UNCHANGED <<clock, notifications, subscriptions, pushed>>

\* INSERT INTO notification_logs ... 'pending' RETURNING id
PushLogPending(s) ==
  /\ runs[s].pc = "pending"
  /\ \/ /\ logs' = Append(logs, [notification_id |-> runs[s].rows[runs[s].i].id,
                                 status |-> "pending"])
        /\ runs' = [runs EXCEPT ![s].logId = Len(logs) + 1, ![s].pc = "deliver"]
     \/ Aborted(s) /\ UNCHANGED logs
  /\ CronFrame
  /\ UNCHANGED <<clock, notifications, subscriptions, pushed>>

AfterSubscription(s) ==
  IF runs[s].j < Len(runs[s].subs) THEN "deliver" ELSE "final"

\* await webpush.sendNotification(pushSubscription, payload): sent++ when it
\* resolves; failed++ when it rejects, and the cleanup when the status is
\* 410 or 404
PushDeliver(s) ==
  /\ runs[s].pc = "deliver"
  /\ \E o \in Outcomes :
       runs' = [runs EXCEPT
                  ![s].outcomes = Append(@, o),
                  ![s].sent = IF o = Delivered THEN @ + 1 ELSE @,
                  ![s].failed = IF o = Delivered THEN @ ELSE @ + 1,
                  ![s].j = IF o \in {StatusGone, StatusNotFound} THEN @ ELSE @ + 1,
                  ![s].pc = IF o \in {StatusGone, StatusNotFound}
                            THEN "cleanup" ELSE AfterSubscription(s)]
  /\ CronFrame
  /\ UNCHANGED <<clock, notifications, subscriptions, logs, pushed>>

\* DELETE FROM push_subscriptions WHERE endpoint = $1, awaited inside the
\* catch block of the delivery: its rejection leaves the for loop
PushCleanup(s) ==
  /\ runs[s].pc = "cleanup"
  /\ \/ /\ subscriptions' = subscriptions \ {runs[s].subs[runs[s].j]}
        /\ runs' = [runs EXCEPT ![s].j = @ + 1, ![s].pc = AfterSubscription(s)]
     \/ Aborted(s) /\ UNCHANGED subscriptions
  /\ CronFrame
  /\ UNCHANGED <<clock, notifications, logs, pushed>>

FinalStatus(sent, failed, status) ==
  IF sent > 0 THEN "sent" ELSE IF failed > 0 THEN "failed" ELSE status

\* UPDATE notification_logs SET status = ... WHERE id = logId; return
PushFinal(s) ==
  /\ runs[s].pc = "final"
  /\ \/ /\ logs' = [logs EXCEPT ![runs[s].logId].status =
                                   FinalStatus(runs[s].sent, runs[s].failed, @)]
        /\ runs' = [runs EXCEPT ![s].pc = "update"]
     \/ Aborted(s) /\ UNCHANGED logs
  /\ CronFrame
  /\ UNCHANGED <<clock, notifications, subscriptions, pushed>>

\* nextDay.setDate(nextDay.getDate() + 1) on the row as it was selected
NextDay(t) == t + Day

\* repeat_daily: UPDATE notifications SET scheduled_time = nextDay;
\* otherwise: UPDATE notifications SET is_active = false
CronUpdateRepeatOnly(s) ==
  /\ runs[s].pc = "update"
  /\ LET row == runs[s].rows[runs[s].i] IN
       \/ /\ notifications' =
               IF row.repeat_daily
               THEN [notifications EXCEPT ![row.id].scheduled_time = NextDay(row.scheduled_time)]
               ELSE notifications
          /\ runs' = [runs EXCEPT ![s].i = @ + 1, ![s].pc = "loop"]
       \/ Aborted(s) /\ UNCHANGED notifications
  /\ CronFrame
  /\ UNCHANGED <<clock, subscriptions, logs, pushed>>
CronUpdate(s) ==
  /\ runs[s].pc = "update"
  /\ LET row == runs[s].rows[runs[s].i] IN
       \/ /\ notifications' =
               IF row.repeat_daily
               THEN [notifications EXCEPT ![row.id].scheduled_time = NextDay(row.scheduled_time)]
               ELSE [notifications EXCEPT ![row.id].is_active = FALSE]
          /\ runs' = [runs EXCEPT ![s].i = @ + 1, ![s].pc = "loop"]
       \/ Aborted(s) /\ UNCHANGED notifications
  /\ CronFrame
  /\ UNCHANGED <<clock, subscriptions, logs, pushed>>

CronStep(S) ==
  \/ \E s \in S : CronFire(s)
  \/ \E s \in S : CronQuery(s)
  \/ \E s \in S : CronLoop(s)
  \/ \E s \in S : PushSubscriptions(s)
  \/ \E s \in S : PushNoSubscription(s)
  \/ \E s \in S : PushLogPending(s)
  \/ \E s \in S : PushDeliver(s)
  \/ \E s \in S : PushCleanup(s)
  \/ \E s \in S : PushFinal(s)
  \/ \E s \in S : CronUpdate(s)

\* one run at a time: every run ends before the next minute
NextCron == CronStep({1})
SpecCron == InitCron /\ [][NextCron]_vars
\* a run may start while the one before is still awaiting
NextCronConc == CronStep(RunSlots)
SpecCronConc == InitCronConc /\ [][NextCronConc]_vars

(* ------------------------------ properties ---------------------------- *)
Range(seq) == { seq[i] : i \in 1..Len(seq) }
ChatMessages(c) == { m \in messages : m.chat_id = c }
Originals(c) == { m \in ChatMessages(c) : m.parent_message_id = NULL }
Ascending(seq) ==
  \A i, j \in 1..Len(seq) : i < j => seq[i].timestamp < seq[j].timestamp
BranchIndexes == 2..(MaxMessages + 1)
FetchDone(r) == req[r].op = "fetch" /\ req[r].pc = "done" /\ req[r].status = 200

\* C1: for every chat, the transcript of branch 1 (or of an absent branch
\* index) is exactly the chat's messages without parent_message_id, each once,
\* in ascending timestamp order; it is empty for a chat without messages.
C1_MainBranchIsOriginals ==
  \A c \in ChatIds, b \in {NoBranch, 1} :
    LET t == loadConversationChain(messages, c, b)
    IN /\ Range(t) = Originals(c)
       /\ Len(t) = Cardinality(Originals(c))
       /\ Ascending(t)
       /\ ChatMessages(c) = {} => t = <<>>

\* a fetch of the main branch has answered with two or more originals while
\* the chat also holds edit-created messages
C1_Witness ==
  \E r \in Requests :
    /\ FetchDone(r)
    /\ req[r].branchIndex = NoBranch
    /\ Len(req[r].history) >= 2
    /\ \E m \in ChatMessages(req[r].chat) : m.parent_message_id # NULL
    /\ \E m \in ChatMessages(req[r].chat) :
         m.parent_message_id = NULL /\ m.timestamp > Max({ x.timestamp :
             x \in { y \in ChatMessages(req[r].chat) : y.parent_message_id # NULL } })

\* C2: for every chat and every k > 1, the transcript of branch k holds every
\* message without parent_message_id and no edit-created message of another
\* branch.
C2_BranchKeepsOriginalsDropsOthers ==
  \A c \in ChatIds, k \in BranchIndexes :
    LET t == loadConversationChain(messages, c, k)
    IN /\ Originals(c) \subseteq Range(t)
       /\ \A m \in Range(t) : m.parent_message_id # NULL => m.branch_index = k

\* a fetch of branch k > 1 has answered while the chat holds edit-created
\* messages of branch k and of another branch, one of them replying to an
\* original
C2_Witness ==
  \E r \in Requests :
    /\ FetchDone(r)
    /\ req[r].branchIndex > 1
    /\ \E m1, m2 \in ChatMessages(req[r].chat) :
         /\ m1.parent_message_id # NULL /\ m1.branch_index = req[r].branchIndex
         /\ m2.parent_message_id # NULL /\ m2.branch_index # req[r].branchIndex
         /\ m2.reply_to # NULL
         /\ \E o \in Originals(req[r].chat) : o.message_id = m2.reply_to

UserEditsIn(c) ==
  { m \in ChatMessages(c) : m.parent_message_id # NULL /\ m.from = "user" }
UserEditsOf(mid) ==
  { m \in messages : m.parent_message_id = mid /\ m.from = "user" }
RepliesTo(e) ==
  { a \in messages : a.from = "assistant" /\ a.reply_to = e.message_id }

\* the chat's history is one pair Q, A and every edit so far is an edit of Q
\* that completed with a reply
SinglePairEdited(c) ==
  /\ UserEditsIn(c) # {}
  /\ \E Q, A \in Originals(c) :
       /\ Originals(c) = {Q, A}
       /\ Q.from = "user" /\ A.from = "assistant"
       /\ A.reply_to = Q.message_id /\ Q.timestamp < A.timestamp
       /\ \A e \in UserEditsIn(c) :
            e.parent_message_id = Q.message_id /\ RepliesTo(e) # {}
       /\ \A m \in ChatMessages(c) :
            m \in Originals(c) \/ m \in UserEditsIn(c)
              \/ \E e \in UserEditsIn(c) : m \in RepliesTo(e)

\* C3: in a chat whose history is the single pair Q, A, after the j-th
\* successful edit of Q the transcript of branch j+1 is exactly
\* <<edited message, its reply>>.
C3_EditedBranchIsEditedPair ==
  \A c \in ChatIds :
    SinglePairEdited(c) =>
      \A e \in UserEditsIn(c) :
        LET j == Cardinality({ x \in UserEditsIn(c) : x.timestamp <= e.timestamp })
            a == CHOOSE x \in RepliesTo(e) : TRUE
        IN loadConversationChain(messages, c, j + 1) = <<e, a>>

\* C4: served one after another, an edit of M inserts a user message whose
\* branch_index is 1 + the largest branch_index among M and the messages with
\* parent_message_id M, hence larger than that of every earlier edit of M.
C4_EditAllocatesNextBranchIndex ==
  [][\A m \in messages' \ messages :
       (m.parent_message_id # NULL /\ m.from = "user") =>
         LET rooted == { x \in messages : \/ x.message_id = m.parent_message_id
                                          \/ x.parent_message_id = m.parent_message_id }
         IN /\ rooted # {}
            /\ m.branch_index = 1 + Max({ x.branch_index : x \in rooted })
            /\ \A x \in messages :
                 x.parent_message_id = m.parent_message_id
                   => x.branch_index < m.branch_index]_vars

\* a message has two edits, the earlier one left without a reply by a failed
\* generation, the later one answered
C4_Witness ==
  \E e1, e2 \in messages :
    /\ e1.from = "user" /\ e2.from = "user"
    /\ e1.parent_message_id # NULL
    /\ e1.parent_message_id = e2.parent_message_id
    /\ e1.timestamp < e2.timestamp
    /\ e1.branch_index < e2.branch_index
    /\ RepliesTo(e1) = {}
    /\ RepliesTo(e2) # {}

\* C5: whatever the interleaving, no two edits of the same message carry the
\* same branch_index.
C5_NoDuplicateBranchIndex ==
  \A e1, e2 \in messages :
    ( /\ e1.from = "user" /\ e2.from = "user"
      /\ e1.parent_message_id # NULL
      /\ e1.parent_message_id = e2.parent_message_id
      /\ e1.message_id # e2.message_id )
    => e1.branch_index # e2.branch_index

\* C6: an edit leaves the transcript of every branch that existed before it
\* unchanged (requests served one after another: the rows older than the
\* edited message are the store as it was before the edit).
C6_EditKeepsExistingBranches ==
  \A r \in Requests :
    (req[r].op = "edit" /\ req[r].newId # 0) =>
      LET c == req[r].chat
          before == { m \in messages : m.message_id < req[r].newId }
      IN \A i \in { m.branch_index : m \in { x \in before : x.chat_id = c } } :
           loadConversationChain(messages, c, i) = loadConversationChain(before, c, i)

\* C7: an original user message edited n >= 1 times, each edit answered, is
\* reported with branchCount = 1 + n.
C7_BranchCountIsEditsPlusOne ==
  \A c \in ChatIds :
    \A M \in Originals(c) :
      ( /\ M.from = "user"
        /\ UserEditsOf(M.message_id) # {}
        /\ \A e \in UserEditsOf(M.message_id) : RepliesTo(e) # {} )
      => /\ M.message_id \in DOMAIN getBranchInfo(messages, c)
         /\ getBranchInfo(messages, c)[M.message_id].branchCount
              = 1 + Cardinality(UserEditsOf(M.message_id))

\* C8: an original user message with at least one edit is reported with
\* currentBranch = the highest branch_index among the messages whose
\* parent_message_id it is.
C8_CurrentBranchIsHighestEdit ==
  \A c \in ChatIds :
    \A M \in Originals(c) :
      LET children == { x \in messages : x.parent_message_id = M.message_id }
      IN (M.from = "user" /\ children # {}) =>
           /\ M.message_id \in DOMAIN getBranchInfo(messages, c)
           /\ getBranchInfo(messages, c)[M.message_id].currentBranch
                = Max({ x.branch_index : x \in children })

\* a fetch has answered with the branch info of a message that has edits on
\* two different branches
C8_Witness ==
  \E r \in Requests :
    /\ FetchDone(r)
    /\ \E M \in Originals(req[r].chat) :
         /\ M.message_id \in DOMAIN req[r].branchInfo
         /\ req[r].branchInfo[M.message_id].currentBranch >= 3
         /\ \E e1, e2 \in UserEditsOf(M.message_id) :
              e1.branch_index < e2.branch_index

\* C9: getBranchInfo has an entry for a message only if it is an original,
\* user-authored message with at least one edit; it is empty for a chat in
\* which nothing was edited.
C9_BranchInfoOnlyForEdited ==
  \A c \in ChatIds :
    \A id \in DOMAIN getBranchInfo(messages, c) :
      \E M \in Originals(c) :
        /\ M.message_id = id
        /\ M.from = "user"
        /\ \E x \in messages : x.parent_message_id = id

\* the preconditions of a request, read off its arguments and the store
TextMissing(r) == ~req[r].body.str \/ Len(req[r].body.val) = 0
ChatNotOwned(r) ==
  ~\E c \in chats : c.chat_id = req[r].chat /\ c.user_id = req[r].user
TargetRows(r) ==
  { m \in messages : /\ m.message_id = req[r].target
                     /\ m.chat_id = req[r].chat
                     /\ m.user_id = req[r].user }
Rejected(r, code) == req[r].status = code /\ req[r].writes = 0

GenerationFailed(r) ==
  /\ req[r].pc = "done" /\ req[r].op \in {"send", "edit"}
  /\ req[r].status = 500 /\ req[r].newId # 0 /\ ~req[r].dbError

\* C11: a send or an edit whose text generation fails ends with an error
\* after that one attempt and without a further write; the user message it
\* inserted is still stored and has no assistant reply; after a failed edit
\* the new message is the last element of its branch's transcript and the
\* main-branch transcript is what it was before the edit.
C11_GenerationFailureKeepsUserMessage ==
  /\ [](\A r \in Requests :
          GenerationFailed(r) =>
            LET c == req[r].chat
                before == { m \in messages : m.message_id < req[r].newId }
                mine == { m \in messages : m.message_id = req[r].newId }
            IN /\ \E m \in mine : m.from = "user" /\ m.chat_id = c
               /\ ~\E m \in messages : m.message_id > req[r].newId
               /\ ~\E a \in messages : a.reply_to = req[r].newId
               /\ req[r].op = "edit" =>
                    \A e \in mine :
                      LET t == loadConversationChain(messages, c, e.branch_index)
                      IN /\ Len(t) > 0 /\ t[Len(t)] = e
                         /\ e.parent_message_id = req[r].target
                         /\ loadConversationChain(messages, c, 1)
                              = loadConversationChain(before, c, 1))
  /\ [][\A r \in Requests :
          (req[r].pc \in {"s_generate", "e_generate"} /\ req'[r].pc # req[r].pc)
            => \/ req'[r].pc \in {"s_insertAssistant", "e_insertAssistant"}
               \/ /\ req'[r].pc = "done" /\ req'[r].status = 500
                  /\ messages' = messages /\ chats' = chats]_vars

\* an edit has failed at text generation in a chat whose transcript of that
\* branch already holds an assistant reply
C11_Witness ==
  \E r \in Requests :
    /\ GenerationFailed(r) /\ req[r].op = "edit"
    /\ \E e \in messages :
         /\ e.message_id = req[r].newId
         /\ \E a \in Range(loadConversationChain(messages, req[r].chat, e.branch_index)) :
              a.from = "assistant"

EditSucceeded(r) == req[r].op = "edit" /\ req[r].pc = "done" /\ req[r].status = 200
\* the assistant messages answering message mid
AssistantRepliesTo(mid) ==
  { a \in messages : a.from = "assistant" /\ a.reply_to = mid }

\* C12 as stated: the reply persisted by a successful edit of M is an
\* assistant message with reply_to the edited message, the allocated
\* branch_index, and parent_message_id the id of the assistant message that
\* originally followed M (null if there is none).
C12_ReplyParentIsOriginalReply ==
  \A r \in Requests :
    EditSucceeded(r) =>
      /\ AssistantRepliesTo(req[r].newId) # {}
      /\ \A a \in AssistantRepliesTo(req[r].newId) :
           /\ a.branch_index = req[r].nextBranchIndex
           /\ a.parent_message_id =
                IF AssistantRepliesTo(req[r].target) = {} THEN NULL
                ELSE (CHOOSE o \in AssistantRepliesTo(req[r].target) : TRUE).message_id

\* C12 amended: the reply persisted by a successful edit of M is the one
\* message with reply_to the edited message; it is an assistant message with
\* the branch_index allocated for the edit and parent_message_id the id of M
\* itself, as the edited message has.
C12_ReplyParentIsEditedMessage ==
  \A r \in Requests :
    EditSucceeded(r) =>
      /\ Cardinality({ a \in messages : a.reply_to = req[r].newId }) = 1
      /\ \A a \in messages :
           a.reply_to = req[r].newId =>
             /\ a.from = "assistant"
             /\ a.chat_id = req[r].chat
             /\ a.branch_index = req[r].nextBranchIndex
             /\ a.parent_message_id = req[r].target
             /\ \E e \in messages :
                  /\ e.message_id = req[r].newId /\ e.from = "user"
                  /\ e.parent_message_id = a.parent_message_id
                  /\ e.branch_index = a.branch_index

\* an edit of a message that had an assistant reply has succeeded, on a
\* branch index above 2
C12_Witness ==
  \E r \in Requests :
    /\ EditSucceeded(r)
    /\ req[r].nextBranchIndex > 2
    /\ AssistantRepliesTo(req[r].target) # {}
    /\ AssistantRepliesTo(req[r].newId) # {}

\* C13: every message a send inserts has branch_index 1 and no
\* parent_message_id; the user message's id is the one the request keeps, and
\* the assistant reply's reply_to is that id, a user message of the same
\* chat; a message with a parent_message_id is inserted only by a step of an
\* edit.
C13_SendStaysOnMainBranch ==
  /\ [][\A r \in Requests :
          (req[r].op = "send" /\ req'[r].pc # req[r].pc) =>
            \A m \in messages' \ messages :
              /\ m.branch_index = 1
              /\ m.parent_message_id = NULL
              /\ m.from = "user" => req'[r].newId = m.message_id
              /\ m.from = "assistant" =>
                   /\ m.reply_to = req[r].newId
                   /\ \E u \in messages :
                        /\ u.message_id = m.reply_to /\ u.from = "user"
                        /\ u.chat_id = m.chat_id]_vars
  /\ [][\A m \in messages' \ messages :
          m.parent_message_id # NULL =>
            \E r \in Requests : req[r].op = "edit" /\ req'[r].pc # req[r].pc]_vars

\* a send carrying a replyTo has been answered in a chat that also holds
\* edit-created messages
C13_Witness ==
  \E r \in Requests :
    /\ req[r].op = "send" /\ req[r].pc = "done" /\ req[r].status = 200
    /\ req[r].replyTo # NULL
    /\ AssistantRepliesTo(req[r].newId) # {}
    /\ \E m \in ChatMessages(req[r].chat) : m.parent_message_id # NULL

\* C14: messages are append-only: no step removes a stored message or
\* changes one of its fields, and no two stored messages share an id.
C14_MessagesAppendOnly ==
  /\ [][messages \subseteq messages']_vars
  /\ [](\A m1, m2 \in messages : m1.message_id = m2.message_id => m1 = m2)

\* an edit has been answered: the store holds the original, the edited
\* message and its reply
C14_Witness ==
  \E r \in Requests :
    /\ EditSucceeded(r)
    /\ \E M, e, a \in messages :
         /\ M.message_id = req[r].target
         /\ e.message_id = req[r].newId /\ e.parent_message_id = M.message_id
         /\ e.message # M.message
         /\ a.reply_to = e.message_id

\* C15: every stored message with a reply_to references a message of its own
\* chat.
C15_ReplyToStaysInChat ==
  \A m \in messages :
    m.reply_to # NULL =>
      \E t \in messages : t.message_id = m.reply_to /\ t.chat_id = m.chat_id

\* C16: once a send or an edit that inserted a message has finished without
\* a storage failure, whether answered or failed at text generation, no
\* message of its chat is newer than the chat's updated_at.
C16_AppendBumpsUpdatedAt ==
  \A r \in Requests :
    ( /\ req[r].pc = "done" /\ req[r].op \in {"send", "edit"}
      /\ req[r].newId # 0 /\ ~req[r].dbError )
    => \A c \in chats :
         c.chat_id = req[r].chat =>
           \A m \in ChatMessages(req[r].chat) : m.timestamp <= c.updated_at

\* C17: a request in which a chain reconstruction, a branch-info query or a
\* message insert failed in the store ends as a failure (500), not with a
\* successful response.
C17_StorageFailureSurfaces ==
  \A r \in Requests :
    (req[r].pc = "done" /\ req[r].dbError) => req[r].status = 500

\* title is the first 50 characters of text (all of it when it is shorter)
IsFirst50(title, text) ==
  /\ Len(title) = (IF Len(text) < 50 THEN Len(text) ELSE 50)
  /\ \A i \in 1..Len(title) : title[i] = text[i]

\* the chat of request r exists for its caller with a generated title or
\* with the first 50 characters of the request's text
ChatCreatedFor(r, cs) ==
  \E c \in cs :
    /\ c.chat_id = req[r].chat /\ c.user_id = req[r].user
    /\ c.title = GeneratedTitle \/ IsFirst50(c.title, req[r].body.val)

TitleOf(cs, c) == (CHOOSE x \in cs : x.chat_id = c).title
UserMessageCount(c) == Cardinality({ m \in ChatMessages(c) : m.from = "user" })
\* the title is the placeholder or empty (no character other than spaces)
PlaceholderOrEmpty(title) ==
  title = NewChatTitle \/ \A i \in 1..Len(title) : title[i] = Space
Stepping(r) == req'[r].pc # req[r].pc

\* C19: a send that finds its chat creates no chat; it decides to retitle
\* the chat exactly when the chat has no user message and its title is the
\* placeholder or empty; the chat's title changes in the step that follows
\* that decision and title generation, and in no other step of the send.
C19_ExistingChatTitleRule ==
  [][\A r \in Requests :
       (req[r].op = "send" /\ Stepping(r)) =>
         /\ (req[r].pc = "s_chatQuery"
               /\ OwnedChat(chats, req[r].chat, req[r].user) # {})
              => req'[r].pc = "s_countQuery" /\ req'[r].chatFound
         /\ req[r].pc = "s_countQuery" =>
              /\ req[r].chatFound
              /\ IF /\ UserMessageCount(req[r].chat) = 0
                    /\ PlaceholderOrEmpty(TitleOf(chats, req[r].chat))
                 THEN req'[r].pc = "s_titleExisting"
                 ELSE req'[r].pc = "s_insertUser"
         /\ req[r].pc = "s_titleExisting" => req'[r].pc = "s_updateTitle"
         /\ req'[r].pc = "s_updateTitle" => req[r].pc = "s_titleExisting"
         /\ req[r].chatFound =>
              /\ { x.chat_id : x \in chats' } = { x.chat_id : x \in chats }
              /\ Cardinality(chats') = Cardinality(chats)
              /\ \A c \in ChatIds :
                   (\E x \in chats : x.chat_id = c) =>
                     ( TitleOf(chats', c) # TitleOf(chats, c)
                         <=> (req[r].pc = "s_updateTitle" /\ c = req[r].chat) )]_vars

\* a send found its chat with a custom title and no user message and has
\* stored the chat's first user message under the unchanged title
C19_Witness ==
  \E r \in Requests :
    /\ req[r].op = "send" /\ req[r].chatFound /\ req[r].pc = "s_loadChain"
    /\ req[r].writes = 1
    /\ UserMessageCount(req[r].chat) = 1
    /\ \E c \in chats : c.chat_id = req[r].chat /\ c.title = CustomTitle

\* C20: over every step the main-branch transcript of every chat keeps its
\* elements in place (the old transcript is a prefix of the new one), and a
\* step that inserts only edit-created messages leaves it as it was.
C20_MainBranchOnlyGrows ==
  [][\A c \in ChatIds :
       LET old == loadConversationChain(messages, c, 1)
           new == loadConversationChain(messages', c, 1)
       IN /\ Len(old) <= Len(new)
          /\ SubSeq(new, 1, Len(old)) = old
          /\ (\E r \in Requests : req[r].op = "edit" /\ Stepping(r))
               => new = old]_vars

\* an edit has been answered in a chat whose main branch holds a pair sent
\* after an earlier edit
C20_Witness ==
  \E r \in Requests :
    /\ EditSucceeded(r)
    /\ Len(loadConversationChain(messages, req[r].chat, 1)) >= 2
    /\ \E e, m \in ChatMessages(req[r].chat) :
         /\ e.parent_message_id # NULL /\ m.parent_message_id = NULL
         /\ e.timestamp < m.timestamp

\* C21: no message without parent_message_id is newer than an edit-created
\* message of its chat.
C21_OriginalsPrecedeForks ==
  \A c \in ChatIds :
    \A o, e \in ChatMessages(c) :
      (o.parent_message_id = NULL /\ e.parent_message_id # NULL)
        => o.timestamp <= e.timestamp

MessageById(id) == CHOOSE m \in messages : m.message_id = id

\* C26: the history an edit of M hands to text generation holds neither the
\* new edited message, nor M, nor any message stored after M.
C26_EditHistoryIsBeforeBranchPoint ==
  \A r \in Requests :
    (req[r].op = "edit" /\ req[r].pc = "e_generate") =>
      \A id \in Range(req[r].history) :
        /\ id # req[r].newId
        /\ id # req[r].target
        /\ MessageById(id).timestamp < MessageById(req[r].target).timestamp

\* C27: for every chat and every k > 1 the transcript of branch k is, in
\* timestamp order, exactly the messages without parent_message_id or with
\* branch_index k, and it is the same when every reply_to is cleared.
C27_FixpointAddsNothing ==
  \A c \in ChatIds, k \in BranchIndexes :
    LET seed == { m \in ChatMessages(c) :
                    m.parent_message_id = NULL \/ m.branch_index = k }
        cleared == { [m EXCEPT !.reply_to = NULL] : m \in messages }
        t == loadConversationChain(messages, c, k)
        u == loadConversationChain(cleared, c, k)
    IN /\ t = OrderByTimestamp(seed)
       /\ Len(u) = Len(t)
       /\ \A i \in 1..Len(t) : u[i].message_id = t[i].message_id

\* a fetch of branch k > 1 has answered in a chat where a message of another
\* branch replies to a message of the transcript, and a message of branch k
\* replies to one as well
C27_Witness ==
  \E r \in Requests :
    /\ FetchDone(r)
    /\ req[r].branchIndex > 1
    /\ \E x, y \in ChatMessages(req[r].chat) :
         /\ x.parent_message_id # NULL /\ x.branch_index # req[r].branchIndex
         /\ x.reply_to \in Range(req[r].history)
         /\ x.message_id \notin Range(req[r].history)
         /\ y.parent_message_id # NULL /\ y.branch_index = req[r].branchIndex
         /\ y.reply_to \in Range(req[r].history)
         /\ y.message_id \in Range(req[r].history)

\* C28: no two edits of one chat carry the same branch_index, whichever
\* messages they edit.
C28_BranchIndexNamesOneEdit ==
  \A c \in ChatIds :
    \A e1, e2 \in UserEditsIn(c) :
      e1.message_id # e2.message_id => e1.branch_index # e2.branch_index

\* C25: connectWithRetry makes at most maxRetries attempts, returns true at
\* the first success, throws the last error after maxRetries failures, and
\* waits strictly longer before each further attempt than before the
\* previous one.
C25_RetryWithExponentialBackoff ==
  /\ conn.attempts <= conn.maxRetries
  /\ conn.result = "true" => conn.attempts = Len(conn.waits) + 1
  /\ conn.pc = "thrown" =>
       conn.attempts = conn.maxRetries /\ conn.result = "error"
  /\ conn.pc = "wait" => conn.attempts < conn.maxRetries
  /\ \A k \in 2..Len(conn.waits) : conn.waits[k] > conn.waits[k - 1]


(* ----------------------- scheduler and push claims -------------------- *)
InWindow(t, from, to) == from <= t /\ t <= to
RunEnded(s) == runs[s].pc \in {"finished", "aborted"}
\* sendPushNotification of run s went past its 'pending' insert and has ended,
\* by returning or by throwing
PushCallEnded(s) == runs[s].logId > 0 /\ runs[s].pc \in {"update", "aborted"}
CleanedUp(o) == o \in {StatusGone, StatusNotFound}

\* C22: when a cron run whose queries all answered has ended, every
\* notification that is active with scheduled_time between five minutes
\* before and one minute after the run's now was passed to
\* sendPushNotification by that run.
C22_RunDeliversItsWindow ==
  \A s \in RunSlots :
    (RunEnded(s) /\ ~runs[s].err) =>
      \A n \in DOMAIN notifications :
        ( /\ notifications[n].is_active
          /\ InWindow(notifications[n].scheduled_time,
                      runs[s].now - WindowBack * OneMinute, runs[s].now + OneMinute) )
          => n \in runs[s].passed

\* C23: the update that follows a returned sendPushNotification moves a
\* daily-repeat notification exactly one day on and leaves it active, marks
\* any other notification inactive, and touches no other row; an inactive
\* notification stays inactive and no query of a run selects it.
C23_SentIsRescheduledOrRetired ==
  [][\A s \in RunSlots :
       /\ (runs[s].pc = "update" /\ runs'[s].pc = "loop") =>
            LET row == runs[s].rows[runs[s].i] IN
              /\ row.repeat_daily =>
                   /\ notifications'[row.id].scheduled_time
                        = notifications[row.id].scheduled_time + Day
                   /\ notifications'[row.id].is_active
                   /\ notifications[row.id].is_active
              /\ ~row.repeat_daily => ~notifications'[row.id].is_active
              /\ \A n \in DOMAIN notifications \ {row.id} :
                   notifications'[n] = notifications[n]
       /\ \A n \in DOMAIN notifications :
            ~notifications[n].is_active => ~notifications'[n].is_active
       /\ (runs[s].pc = "query" /\ runs'[s].pc # "query") =>
            \A k \in 1..Len(runs'[s].rows) :
              notifications[runs'[s].rows[k].id].is_active]_vars

\* one run delivered a daily notification and a one-time notification, the
\* first is active a day later, the second inactive, and the next run, whose
\* window holds the second one's scheduled_time, has ended without it
C23_Witness ==
  \E n, m \in DOMAIN notifications :
    /\ ~notifications[n].repeat_daily /\ ~notifications[n].is_active
    /\ pushed[n] = 1 /\ pushed[m] = 1
    /\ notifications[m].repeat_daily /\ notifications[m].is_active
    /\ notifications[m].scheduled_time >= Day
    /\ runs[1].pc = "finished" /\ runs[1].passed = {}
    /\ InWindow(notifications[n].scheduled_time,
                WindowStart(build, runs[1].now), WindowEnd(runs[1].now))
    /\ logs # <<>> /\ \A k \in 1..Len(logs) : logs[k].status = "sent"

\* C24: when a sendPushNotification call has ended, delivery was attempted to
\* every subscription it selected, and a selected subscription is gone from
\* push_subscriptions exactly when its delivery failed with 410 or 404.
C24_CleanupExactlyGoneEndpoints ==
  \A s \in RunSlots :
    PushCallEnded(s) =>
      /\ Len(runs[s].outcomes) = Len(runs[s].subs)
      /\ \A k \in 1..Len(runs[s].outcomes) :
           (runs[s].subs[k] \notin subscriptions) <=> CleanedUp(runs[s].outcomes[k])

\* C29: sendPushNotification is invoked at most once for a notification
\* that does not repeat, runs overlapping or not.
C29_OneTimePushedOnce ==
  \A n \in DOMAIN notifications :
    ~notifications[n].repeat_daily => pushed[n] <= 1

\* C30: when a sendPushNotification call that inserted its 'pending' log row
\* has ended, by returning or by throwing, the row reads 'sent' if a
\* delivery succeeded and 'failed' if none did.
C30_PendingLogIsSettled ==
  \A s \in RunSlots :
    PushCallEnded(s) =>
      logs[runs[s].logId].status = IF runs[s].sent > 0 THEN "sent" ELSE "failed"
====
